---- MODULE Spec2Model ----
(***************************************************************************)
(* FIFO tax-lot ledger of robinhood_capital_gains_estimator.py.            *)
(*                                                                         *)
(* The heap of Lot objects is the sequence `lots`; a Lot reference is an   *)
(* index into it and None is 0.  The three module-level dicts keep their   *)
(* names; a key that is not in a dict is not in the function's DOMAIN.     *)
(* Decimal values are exact rationals <<num, den>> in lowest terms         *)
(* (den > 0): the values the 28-digit Decimal context holds whenever it    *)
(* does not round.                                                         *)
(***************************************************************************)
EXTENDS Integers, Sequences, FiniteSets, TLC

VARIABLES lots, lot_roots, lot_heads, current_quantities,
          row, split_ratio, phase, exception, nrows, gains, start_of_year

vars == <<lots, lot_roots, lot_heads, current_quantities,
          row, split_ratio, phase, exception, nrows, gains, start_of_year>>

ledger == <<lots, lot_roots, lot_heads, current_quantities>>

-----------------------------------------------------------------------------
(* Bounds of the model and the inputs the transaction rows are drawn from. *)

MaxRows == 4

Instruments == {"X"}
Portfolio == {"X", "Y"}
Dates == {0, 365, 366}
BuyQuantities == {1, 2}
ConvQuantities == {1}
SellQuantities == {1, 2}
SplitQuantities == {1}
BuyPrices == {12}
SellPrices == {9}
OverrideRatios == {<<3, 2>>, <<2, 1>>}

-----------------------------------------------------------------------------
(* Program constants.                                                      *)

DecimalPrecision == 28
MaxDecimalPlaces == 1
LongTermDays == 365

None == 0
NoDate == -1
NoPrice == <<0, 0>>
NoRow == [date |-> NoDate, instrument |-> "", type |-> "", quantity |-> <<0, 1>>, price |-> NoPrice]

-----------------------------------------------------------------------------
(* Decimal arithmetic on exact rationals.                                  *)

Abs(n) == IF n < 0 THEN -n ELSE n

RECURSIVE GCD(_, _)
GCD(a, b) == IF b = 0 THEN a ELSE GCD(b, a % b)

Norm(n, d) ==
    LET s == IF d < 0 THEN -1 ELSE 1
        g == GCD(Abs(n), Abs(d))
    IN  <<(s * n) \div g, (s * d) \div g>>

Dec(n) == <<n, 1>>
Zero == Dec(0)

DecAdd(a, b) == Norm(a[1] * b[2] + b[1] * a[2], a[2] * b[2])
DecSub(a, b) == Norm(a[1] * b[2] - b[1] * a[2], a[2] * b[2])
DecMul(a, b) == Norm(a[1] * b[1], a[2] * b[2])
DecDiv(a, b) == Norm(a[1] * b[2], a[2] * b[1])
DecLt(a, b) == a[1] * b[2] < b[1] * a[2]
DecLe(a, b) == a[1] * b[2] <= b[1] * a[2]

RECURSIVE StripFactor(_, _)
StripFactor(n, f) == IF n % f = 0 THEN StripFactor(n \div f, f) ELSE n

RECURSIVE CountFactor(_, _)
CountFactor(n, f) == IF n % f = 0 THEN 1 + CountFactor(n \div f, f) ELSE 0

RECURSIVE IntDigits(_)
IntDigits(n) == IF n < 10 THEN 1 ELSE 1 + IntDigits(n \div 10)

Max(a, b) == IF a >= b THEN a ELSE b

(* len(str(num).split('.')[-1]) for a Decimal >= 1: the digits after the   *)
(* point when the expansion terminates, and the digits the context's       *)
(* precision leaves after the integer part when it does not.               *)
count_decimal_places(num) ==
    LET d == num[2]
    IN  IF d = 1 THEN 0
        ELSE IF StripFactor(StripFactor(d, 2), 5) = 1
             THEN Max(CountFactor(d, 2), CountFactor(d, 5))
             ELSE DecimalPrecision - IntDigits(Abs(num[1]) \div d)

-----------------------------------------------------------------------------
(* The Lot class.                                                          *)

Lot(prev_lot, instrument, purchase_date, purchase_price, quantity, sell_date, sell_price, next_lot) ==
    [prev_lot |-> prev_lot, instrument |-> instrument,
     purchase_date |-> purchase_date, purchase_price |-> purchase_price,
     quantity |-> quantity, sell_date |-> sell_date, sell_price |-> sell_price,
     next_lot |-> next_lot]

(* Lot.split without line 36: the remainder keeps the whole quantity.      *)
LotSplitKeepQuantity(ls, self, first_lot_quantity) ==
    LET new_lot == Len(ls) + 1
        made == Lot(ls[self].prev_lot, ls[self].instrument, ls[self].purchase_date,
                    ls[self].purchase_price, first_lot_quantity,
                    ls[self].sell_date, ls[self].sell_price, self)
    IN  Append([ls EXCEPT ![self].prev_lot = new_lot,
                          ![self].sell_date = NoDate,
                          ![self].sell_price = NoPrice],
               made)

(* Lot.split closing the wrong half: the new front lot is left open and    *)
(* the remainder keeps the sale.                                           *)
LotSplitWrongHalf(ls, self, first_lot_quantity) ==
    LET new_lot == Len(ls) + 1
        made == Lot(ls[self].prev_lot, ls[self].instrument, ls[self].purchase_date,
                    ls[self].purchase_price, first_lot_quantity,
                    NoDate, NoPrice, self)
    IN  Append([ls EXCEPT ![self].prev_lot = new_lot,
                          ![self].quantity = DecSub(ls[self].quantity, first_lot_quantity)],
               made)

(* Lot.split dating the new lot by the sale instead of the purchase.       *)
LotSplitRedated(ls, self, first_lot_quantity) ==
    LET new_lot == Len(ls) + 1
        made == Lot(ls[self].prev_lot, ls[self].instrument, ls[self].sell_date,
                    ls[self].purchase_price, first_lot_quantity,
                    ls[self].sell_date, ls[self].sell_price, self)
    IN  Append([ls EXCEPT ![self].prev_lot = new_lot,
                          ![self].quantity = DecSub(ls[self].quantity, first_lot_quantity),
                          ![self].sell_date = NoDate,
                          ![self].sell_price = NoPrice],
               made)

(* Lot.split(self, first_lot_quantity) on the heap ls: the new lot is      *)
(* allocated at the end of the heap and is the value returned.             *)
LotSplit(ls, self, first_lot_quantity) ==
    LET new_lot == Len(ls) + 1
        made == Lot(ls[self].prev_lot, ls[self].instrument, ls[self].purchase_date,
                    ls[self].purchase_price, first_lot_quantity,
                    ls[self].sell_date, ls[self].sell_price, self)
    IN  Append([ls EXCEPT ![self].prev_lot = new_lot,
                          ![self].quantity = DecSub(ls[self].quantity, first_lot_quantity),
                          ![self].sell_date = NoDate,
                          ![self].sell_price = NoPrice],
               made)

-----------------------------------------------------------------------------
(* Python dicts.                                                           *)

EmptyDict == [k \in {} |-> None]
Put(d, k, v) == [x \in (DOMAIN d) \cup {k} |-> IF x = k THEN v ELSE d[x]]
Get(d, k) == IF k \in DOMAIN d THEN d[k] ELSE None

-----------------------------------------------------------------------------
(* import_file: a row is read, parsed and dispatched on its Trans Code.    *)
(* The rows of a file are replayed oldest first, so a row's date is never  *)
(* before the date of the row replayed before it.                          *)

ZeroBasisCodes == {"CONV", "SXCH", "MRGS"}

Row(date, instrument, type, quantity, price) ==
    [date |-> date, instrument |-> instrument, type |-> type,
     quantity |-> quantity, price |-> price]

ReadRow(r) ==
    /\ phase = "import"
    /\ nrows < MaxRows
    /\ r.date >= row.date
    /\ row' = r
    /\ nrows' = nrows + 1

(* quit() and an uncaught exception replaced by a logged error: the row    *)
(* loop goes on.                                                           *)
RaiseAndContinue(e) ==
    /\ phase' = phase
    /\ exception' = e

Raise(e) ==
    /\ phase' = "crashed"
    /\ exception' = e

(* Trans Code in CONV, SXCH, MRGS, Buy.                                    *)
Acquire(r) ==
    LET instrument == r.instrument
        transaction_price == IF r.type \in ZeroBasisCodes THEN Zero ELSE r.price
        lot == Len(lots) + 1
        made == Lot(Get(lot_heads, instrument), instrument, r.date, transaction_price,
                    r.quantity, NoDate, NoPrice, None)
        linked == IF Get(lot_heads, instrument) # None
                  THEN [lots EXCEPT ![lot_heads[instrument]].next_lot = lot]
                  ELSE lots
        started == IF instrument \notin DOMAIN lot_roots
                   THEN Put(current_quantities, instrument, Zero)
                   ELSE current_quantities
    IN  /\ ReadRow(r)
        /\ lots' = Append(linked, made)
        /\ lot_roots' = IF instrument \notin DOMAIN lot_roots
                        THEN Put(lot_roots, instrument, lot)
                        ELSE lot_roots
        /\ lot_heads' = Put(lot_heads, instrument, lot)
        /\ current_quantities' = Put(started, instrument, DecAdd(started[instrument], r.quantity))
        /\ UNCHANGED <<split_ratio, phase, exception, gains, start_of_year>>

(* Lines 114-120 without lines 117-118: the lot before the new one is not *)
(* relinked.                                                               *)
SplitOffUnlinked(ls, roots, instrument, current_lot, quantity_to_distribute) ==
    LET split == LotSplit(ls, current_lot, quantity_to_distribute)
        first_split_lot == Len(split)
    IN  IF split[first_split_lot].prev_lot # None
        THEN [lots |-> split, roots |-> roots, raised |-> FALSE]
        ELSE [lots |-> split, roots |-> Put(roots, instrument, first_split_lot), raised |-> FALSE]

(* Lines 114-120 with line 120 run whatever line 117 finds: the new lot    *)
(* becomes the root and the lots before it are no longer reached from it.  *)
SplitOffAsRoot(ls, roots, instrument, current_lot, quantity_to_distribute) ==
    LET split == LotSplit(ls, current_lot, quantity_to_distribute)
        first_split_lot == Len(split)
    IN  IF split[first_split_lot].prev_lot # None
        THEN [lots |-> [split EXCEPT ![split[first_split_lot].prev_lot].next_lot = first_split_lot],
              roots |-> Put(roots, instrument, first_split_lot), raised |-> FALSE]
        ELSE [lots |-> split, roots |-> Put(roots, instrument, first_split_lot), raised |-> FALSE]

(* Lines 114-120 with current_lot.split given what is left of the lot      *)
(* instead of what is left to distribute.                                  *)
SplitOffRemainder(ls, roots, instrument, current_lot, quantity_to_distribute) ==
    LET split == LotSplit(ls, current_lot,
                          DecSub(ls[current_lot].quantity, quantity_to_distribute))
        first_split_lot == Len(split)
    IN  IF split[first_split_lot].prev_lot # None
        THEN [lots |-> [split EXCEPT ![split[first_split_lot].prev_lot].next_lot = first_split_lot],
              roots |-> roots, raised |-> FALSE]
        ELSE [lots |-> split, roots |-> Put(roots, instrument, first_split_lot), raised |-> FALSE]

(* Lines 114-120: the partial sale of current_lot.                         *)
SplitOff(ls, roots, instrument, current_lot, quantity_to_distribute) ==
    LET split == LotSplit(ls, current_lot, quantity_to_distribute)
        first_split_lot == Len(split)
    IN  IF split[first_split_lot].prev_lot # None
        THEN [lots |-> [split EXCEPT ![split[first_split_lot].prev_lot].next_lot = first_split_lot],
              roots |-> roots, raised |-> FALSE]
        ELSE [lots |-> split, roots |-> Put(roots, instrument, first_split_lot), raised |-> FALSE]

(* The while loop of a Sell without lines 103-105: sold lots are sold      *)
(* again.                                                                  *)
RECURSIVE SellLoopNoSkip(_, _, _, _, _, _)
SellLoopNoSkip(ls, roots, current_lot, quantity_to_distribute, transaction_date, transaction_price) ==
    IF ~DecLt(Zero, quantity_to_distribute)
    THEN [lots |-> ls, roots |-> roots, raised |-> FALSE]
    ELSE IF current_lot = None
    THEN [lots |-> ls, roots |-> roots, raised |-> TRUE]
    ELSE LET sold == [ls EXCEPT ![current_lot].sell_date = transaction_date,
                                ![current_lot].sell_price = transaction_price]
         IN  IF DecLe(ls[current_lot].quantity, quantity_to_distribute)
             THEN SellLoopNoSkip(sold, roots, ls[current_lot].next_lot,
                                 DecSub(quantity_to_distribute, ls[current_lot].quantity),
                                 transaction_date, transaction_price)
             ELSE SplitOff(sold, roots, ls[current_lot].instrument, current_lot,
                           quantity_to_distribute)

(* The while loop of a Sell with < for <= at line 108: a lot sold exactly  *)
(* is split.                                                               *)
RECURSIVE SellLoopStrict(_, _, _, _, _, _)
SellLoopStrict(ls, roots, current_lot, quantity_to_distribute, transaction_date, transaction_price) ==
    IF ~DecLt(Zero, quantity_to_distribute)
    THEN [lots |-> ls, roots |-> roots, raised |-> FALSE]
    ELSE IF current_lot = None
    THEN [lots |-> ls, roots |-> roots, raised |-> TRUE]
    ELSE IF ls[current_lot].sell_date # NoDate
    THEN SellLoopStrict(ls, roots, ls[current_lot].next_lot, quantity_to_distribute,
                        transaction_date, transaction_price)
    ELSE LET sold == [ls EXCEPT ![current_lot].sell_date = transaction_date,
                                ![current_lot].sell_price = transaction_price]
         IN  IF DecLt(ls[current_lot].quantity, quantity_to_distribute)
             THEN SellLoopStrict(sold, roots, ls[current_lot].next_lot,
                                 DecSub(quantity_to_distribute, ls[current_lot].quantity),
                                 transaction_date, transaction_price)
             ELSE SplitOff(sold, roots, ls[current_lot].instrument, current_lot,
                           quantity_to_distribute)

(* The while loop of a Sell guarded by `and current_lot`: it ends quietly  *)
(* at the end of the chain.                                                *)
RECURSIVE SellLoopQuiet(_, _, _, _, _, _)
SellLoopQuiet(ls, roots, current_lot, quantity_to_distribute, transaction_date, transaction_price) ==
    IF ~DecLt(Zero, quantity_to_distribute) \/ current_lot = None
    THEN [lots |-> ls, roots |-> roots, raised |-> FALSE]
    ELSE IF ls[current_lot].sell_date # NoDate
    THEN SellLoopQuiet(ls, roots, ls[current_lot].next_lot, quantity_to_distribute,
                       transaction_date, transaction_price)
    ELSE LET sold == [ls EXCEPT ![current_lot].sell_date = transaction_date,
                                ![current_lot].sell_price = transaction_price]
         IN  IF DecLe(ls[current_lot].quantity, quantity_to_distribute)
             THEN SellLoopQuiet(sold, roots, ls[current_lot].next_lot,
                                DecSub(quantity_to_distribute, ls[current_lot].quantity),
                                transaction_date, transaction_price)
             ELSE SplitOff(sold, roots, ls[current_lot].instrument, current_lot,
                           quantity_to_distribute)

(* Lines 102-120: the while loop of a Sell.  raised is TRUE when the loop  *)
(* reads current_lot.sell_date with current_lot None (AttributeError).     *)
RECURSIVE SellLoop(_, _, _, _, _, _)
SellLoop(ls, roots, current_lot, quantity_to_distribute, transaction_date, transaction_price) ==
    IF ~DecLt(Zero, quantity_to_distribute)
    THEN [lots |-> ls, roots |-> roots, raised |-> FALSE]
    ELSE IF current_lot = None
    THEN [lots |-> ls, roots |-> roots, raised |-> TRUE]
    ELSE IF ls[current_lot].sell_date # NoDate
    THEN SellLoop(ls, roots, ls[current_lot].next_lot, quantity_to_distribute,
                  transaction_date, transaction_price)
    ELSE LET sold == [ls EXCEPT ![current_lot].sell_date = transaction_date,
                                ![current_lot].sell_price = transaction_price]
         IN  IF DecLe(ls[current_lot].quantity, quantity_to_distribute)
             THEN SellLoop(sold, roots, ls[current_lot].next_lot,
                           DecSub(quantity_to_distribute, ls[current_lot].quantity),
                           transaction_date, transaction_price)
             ELSE SplitOff(sold, roots, ls[current_lot].instrument, current_lot,
                           quantity_to_distribute)

(* Lines 73-82: a field of the row does not parse; no transaction is read  *)
(* from it and quit() ends the run.                                        *)
Malformed ==
    /\ phase = "import"
    /\ nrows < MaxRows
    /\ nrows' = nrows + 1
    /\ row' = NoRow
    /\ Raise("SystemExit")
    /\ UNCHANGED <<ledger, split_ratio, gains, start_of_year>>

(* Trans Code Sell.                                                        *)
Sell(r) ==
    LET instrument == r.instrument
    IN  /\ ReadRow(r)
        /\ UNCHANGED <<split_ratio, gains, start_of_year, lot_heads>>
        /\ IF instrument \notin DOMAIN lot_roots
           THEN /\ Raise("KeyError")
                /\ UNCHANGED <<lots, lot_roots, current_quantities>>
           ELSE LET out == SellLoop(lots, lot_roots, lot_roots[instrument], r.quantity,
                                    r.date, r.price)
                IN  /\ lots' = out.lots
                    /\ lot_roots' = out.roots
                    /\ IF out.raised
                       THEN /\ Raise("AttributeError")
                            /\ UNCHANGED current_quantities
                       ELSE /\ current_quantities' =
                                   [current_quantities EXCEPT ![instrument] = DecSub(@, r.quantity)]
                            /\ UNCHANGED <<phase, exception>>

(* The walk of a split multiplying the price as well as the quantity.      *)
RECURSIVE SplitLoopScalePrice(_, _, _)
SplitLoopScalePrice(ls, current_lot, ratio) ==
    IF ls[current_lot].sell_date = NoDate
    THEN LET scaled == [ls EXCEPT ![current_lot].purchase_price = DecMul(@, ratio),
                                  ![current_lot].quantity = DecMul(@, ratio)]
         IN  IF ls[current_lot].prev_lot # None
             THEN SplitLoopScalePrice(scaled, ls[current_lot].prev_lot, ratio)
             ELSE scaled
    ELSE ls

(* The walk of a split without the break at line 138: sold lots are        *)
(* rescaled as well.                                                       *)
RECURSIVE SplitLoopThroughSold(_, _, _)
SplitLoopThroughSold(ls, current_lot, ratio) ==
    LET scaled == [ls EXCEPT ![current_lot].purchase_price = DecDiv(@, ratio),
                             ![current_lot].quantity = DecMul(@, ratio)]
    IN  IF ls[current_lot].prev_lot # None
        THEN SplitLoopThroughSold(scaled, ls[current_lot].prev_lot, ratio)
        ELSE scaled

(* The walk of a split that breaks after the head lot.                     *)
SplitLoopHeadOnly(ls, current_lot, ratio) ==
    IF ls[current_lot].sell_date = NoDate
    THEN [ls EXCEPT ![current_lot].purchase_price = DecDiv(@, ratio),
                    ![current_lot].quantity = DecMul(@, ratio)]
    ELSE ls

(* Lines 132-142: the walk of a split from the head back to the first sold *)
(* lot.                                                                    *)
RECURSIVE SplitLoop(_, _, _)
SplitLoop(ls, current_lot, ratio) ==
    IF ls[current_lot].sell_date = NoDate
    THEN LET scaled == [ls EXCEPT ![current_lot].purchase_price = DecDiv(@, ratio),
                                  ![current_lot].quantity = DecMul(@, ratio)]
         IN  IF ls[current_lot].prev_lot # None
             THEN SplitLoop(scaled, ls[current_lot].prev_lot, ratio)
             ELSE scaled
    ELSE ls

(* Lines 131-142 without line 143: the running quantity is left as it was. *)
RescaleLotsOnly(instrument, ratio) ==
    /\ lots' = SplitLoop(lots, lot_heads[instrument], ratio)
    /\ UNCHANGED <<current_quantities, lot_roots, lot_heads>>

(* Lines 131-143 with one running quantity for the whole account: line    *)
(* 143 scales the quantity of every instrument.                            *)
RescaleEveryQuantity(instrument, ratio) ==
    /\ lots' = SplitLoop(lots, lot_heads[instrument], ratio)
    /\ current_quantities' = [i \in DOMAIN current_quantities |->
                                  DecMul(current_quantities[i], ratio)]
    /\ UNCHANGED <<lot_roots, lot_heads>>

(* Lines 131-143 with the ratio settled.                                   *)
Rescale(instrument, ratio) ==
    /\ lots' = SplitLoop(lots, lot_heads[instrument], ratio)
    /\ current_quantities' = [current_quantities EXCEPT ![instrument] = DecMul(@, ratio)]
    /\ UNCHANGED <<lot_roots, lot_heads>>

(* Trans Code SPL, up to the ratio check: the rescaling follows at once    *)
(* unless the ratio is to be read from the console.                        *)
SPL(r) ==
    LET instrument == r.instrument
        held == current_quantities[instrument]
        ratio == DecDiv(DecAdd(held, r.quantity), held)
    IN  /\ ReadRow(r)
        /\ UNCHANGED <<gains, start_of_year>>
        /\ IF instrument \notin DOMAIN current_quantities
           THEN /\ Raise("KeyError")
                /\ UNCHANGED <<ledger, split_ratio>>
           ELSE IF held = Zero
           THEN /\ Raise("DivisionByZero")
                /\ UNCHANGED <<ledger, split_ratio>>
           ELSE /\ split_ratio' = ratio
                /\ UNCHANGED exception
                /\ IF count_decimal_places(ratio) > MaxDecimalPlaces
                   THEN /\ phase' = "input"
                        /\ UNCHANGED ledger
                   ELSE /\ Rescale(instrument, ratio)
                        /\ UNCHANGED phase

(* Line 129 reading the ratio into another name: the computed ratio goes   *)
(* on being used.                                                          *)
InputIgnored(ratio) ==
    /\ phase = "input"
    /\ split_ratio' = ratio
    /\ phase' = "import"
    /\ Rescale(row.instrument, split_ratio)
    /\ UNCHANGED <<row, exception, nrows, gains, start_of_year>>

(* Line 129: the operator's ratio arrives and the split goes on with it.   *)
Input(ratio) ==
    /\ phase = "input"
    /\ split_ratio' = ratio
    /\ phase' = "import"
    /\ Rescale(row.instrument, ratio)
    /\ UNCHANGED <<row, exception, nrows, gains, start_of_year>>

-----------------------------------------------------------------------------
(* main: the capital gains of the year, per instrument.                    *)

LotGain(l) == DecMul(DecSub(l.sell_price, l.purchase_price), l.quantity)

(* The walk of the report ending at the first unsold lot as well.          *)
RECURSIVE GainsLoopStopAtOpen(_, _, _, _)
GainsLoopStopAtOpen(ls, current_lot, year_start, acc) ==
    LET l == ls[current_lot]
        sold == l.sell_date # NoDate
        counted == IF sold /\ l.sell_date >= year_start
                   THEN IF l.sell_date - l.purchase_date > LongTermDays
                        THEN [acc EXCEPT !.long = DecAdd(@, LotGain(l))]
                        ELSE [acc EXCEPT !.short = DecAdd(@, LotGain(l))]
                   ELSE acc
    IN  IF ~sold \/ l.sell_date < year_start
        THEN acc
        ELSE IF l.prev_lot # None
             THEN GainsLoopStopAtOpen(ls, l.prev_lot, year_start, counted)
             ELSE counted

(* Lines 200-213: from the head back, until a lot sold before the year.    *)
RECURSIVE GainsLoop(_, _, _, _)
GainsLoop(ls, current_lot, year_start, acc) ==
    LET l == ls[current_lot]
        sold == l.sell_date # NoDate
        counted == IF sold /\ l.sell_date >= year_start
                   THEN IF l.sell_date - l.purchase_date > LongTermDays
                        THEN [acc EXCEPT !.long = DecAdd(@, LotGain(l))]
                        ELSE [acc EXCEPT !.short = DecAdd(@, LotGain(l))]
                   ELSE acc
    IN  IF sold /\ l.sell_date < year_start
        THEN acc
        ELSE IF l.prev_lot # None
             THEN GainsLoop(ls, l.prev_lot, year_start, counted)
             ELSE counted

NoGains == [long |-> Zero, short |-> Zero]

Report(year_start) ==
    /\ phase = "import"
    /\ phase' = "reported"
    /\ start_of_year' = year_start
    /\ gains' = [i \in DOMAIN lot_heads |-> GainsLoop(lots, lot_heads[i], year_start, NoGains)]
    /\ UNCHANGED <<ledger, row, split_ratio, exception, nrows>>

-----------------------------------------------------------------------------

Init ==
    /\ lots = <<>>
    /\ lot_roots = EmptyDict
    /\ lot_heads = EmptyDict
    /\ current_quantities = EmptyDict
    /\ row = NoRow
    /\ split_ratio = Zero
    /\ phase = "import"
    /\ exception = ""
    /\ nrows = 0
    /\ gains = EmptyDict
    /\ start_of_year = NoDate

BuyRows(I) == {Row(d, i, "Buy", Dec(q), Dec(p)) :
                d \in Dates, i \in I, q \in BuyQuantities, p \in BuyPrices}
ConvRows(I) == {Row(d, i, "CONV", Dec(q), NoPrice) :
                d \in Dates, i \in I, q \in ConvQuantities}
SellRows(I) == {Row(d, i, "Sell", Dec(q), Dec(p)) :
                d \in Dates, i \in I, q \in SellQuantities, p \in SellPrices}
SplitRows(I) == {Row(d, i, "SPL", Dec(q), NoPrice) :
                d \in Dates, i \in I, q \in SplitQuantities}

Next ==
    \/ \E r \in BuyRows(Instruments) \cup ConvRows(Instruments) : Acquire(r)
    \/ \E r \in SellRows(Instruments) : Sell(r)
    \/ \E r \in SplitRows(Instruments) : SPL(r)
    \/ Malformed
    \/ \E ratio \in OverrideRatios : Input(ratio)
    \/ \E year_start \in Dates : Report(year_start)

Spec == Init /\ [][Next]_vars

(* The same replay over files that hold the rows of two instruments, on    *)
(* two trading days.                                                       *)
PairDates == {0, 366}
PairRows(rows) == {r \in rows : r.date \in PairDates}

NextPair ==
    \/ \E r \in PairRows(BuyRows(Portfolio) \cup ConvRows(Portfolio)) : Acquire(r)
    \/ \E r \in PairRows(SellRows(Portfolio)) : Sell(r)
    \/ \E r \in PairRows(SplitRows(Portfolio)) : SPL(r)
    \/ Malformed
    \/ \E ratio \in OverrideRatios : Input(ratio)
    \/ \E year_start \in PairDates : Report(year_start)

SpecPair == Init /\ [][NextPair]_vars

-----------------------------------------------------------------------------
(* Chains, as the properties below read them.                              *)

RECURSIVE Forward(_, _, _)
Forward(ls, lot, fuel) ==
    IF lot = None \/ fuel = 0 THEN <<>>
    ELSE <<lot>> \o Forward(ls, ls[lot].next_lot, fuel - 1)

RECURSIVE Backward(_, _, _)
Backward(ls, lot, fuel) ==
    IF lot = None \/ fuel = 0 THEN <<>>
    ELSE <<lot>> \o Backward(ls, ls[lot].prev_lot, fuel - 1)

Reverse(s) == [k \in 1..Len(s) |-> s[Len(s) + 1 - k]]

Chain(i) == Forward(lots, lot_roots[i], Len(lots) + 1)
LotsOf(i) == {n \in 1..Len(lots) : lots[n].instrument = i}
Open(l) == l.sell_date = NoDate
Closed(l) == l.sell_date # NoDate

RECURSIVE SumOpen(_, _)
SumOpen(ls, chain) ==
    IF chain = <<>> THEN Zero
    ELSE DecAdd(IF Open(ls[Head(chain)]) THEN ls[Head(chain)].quantity ELSE Zero,
                SumOpen(ls, Tail(chain)))

Held(i) == IF i \in DOMAIN lot_roots THEN SumOpen(lots, Chain(i)) ELSE Zero
Replayed(type) == nrows' = nrows + 1 /\ row'.type = type

-----------------------------------------------------------------------------
(* C1  Conservation: after every row replayed (every Sell for no more than *)
(* is held; a Sell for more raises AttributeError), every instrument's     *)
(* running quantity equals the sum of the quantities of the open lots of   *)
(* its chain.                                                              *)
Conservation ==
    exception # "AttributeError" =>
        /\ DOMAIN current_quantities = DOMAIN lot_roots
        /\ \A i \in DOMAIN current_quantities :
               current_quantities[i] = SumOpen(lots, Chain(i))

(* A split has rescaled what a partial sale left open.                     *)
ConservationWitness ==
    /\ row.type = "SPL" /\ phase = "import"
    /\ \E a, b \in 1..Len(lots) :
           /\ Closed(lots[a]) /\ Open(lots[b])
           /\ split_ratio = <<3, 2>>
           /\ lots[b].quantity = Dec(3)
           /\ current_quantities[lots[b].instrument] = lots[b].quantity

-----------------------------------------------------------------------------
(* C2  FIFO order: along every chain the sold lots come before the unsold  *)
(* ones, and no sold lot has a later purchase date than an unsold lot of   *)
(* the same instrument.                                                    *)
FIFOOrder ==
    /\ \A i \in DOMAIN lot_roots :
           LET c == Chain(i)
           IN  \A j, k \in 1..Len(c) : j < k /\ Closed(lots[c[k]]) => Closed(lots[c[j]])
    /\ \A a, b \in 1..Len(lots) :
           /\ lots[a].instrument = lots[b].instrument
           /\ Open(lots[a]) /\ Closed(lots[b])
           => lots[b].purchase_date <= lots[a].purchase_date

(* Two sales have consumed a chain of three lots from the root: the second *)
(* skipped the sold lot and split the next one.                            *)
FIFOOrderWitness ==
    \E i \in DOMAIN lot_roots :
        LET c == Chain(i)
        IN  /\ Len(c) >= 3
            /\ Closed(lots[c[1]]) /\ Closed(lots[c[2]]) /\ Open(lots[c[3]])
            /\ lots[c[1]].sell_date < lots[c[2]].sell_date
            /\ lots[c[2]].purchase_date = lots[c[3]].purchase_date

-----------------------------------------------------------------------------
(* C3  Chain integrity: for every instrument the walk from the root by     *)
(* next_lot and the walk from the head by prev_lot visit the same lots in  *)
(* opposite orders, no lot twice; the root has no prev_lot, the head no    *)
(* next_lot, and every lot created for the instrument is on the chain.     *)
ChainIntegrity ==
    /\ DOMAIN lot_roots = DOMAIN lot_heads
    /\ \A n \in 1..Len(lots) : lots[n].instrument \in DOMAIN lot_roots
    /\ \A i \in DOMAIN lot_roots :
           LET f == Forward(lots, lot_roots[i], Len(lots) + 1)
               b == Backward(lots, lot_heads[i], Len(lots) + 1)
           IN  /\ Len(f) <= Len(lots)
               /\ \A j, k \in 1..Len(f) : j # k => f[j] # f[k]
               /\ f = Reverse(b)
               /\ lots[lot_roots[i]].prev_lot = None
               /\ lots[lot_heads[i]].next_lot = None
               /\ {f[k] : k \in 1..Len(f)} = LotsOf(i)

(* A partial sale has spliced its new lot between two lots of the chain.   *)
ChainIntegrityWitness ==
    \E i \in DOMAIN lot_roots :
        LET c == Chain(i)
        IN  /\ Len(c) >= 3
            /\ c[2] > c[3]
            /\ Closed(lots[c[1]]) /\ Closed(lots[c[2]]) /\ Open(lots[c[3]])

-----------------------------------------------------------------------------
(* C4  Ledger exhaustion: a Sell row for more than the open lots of its    *)
(* instrument hold (none at all when the instrument has no chain) ends in  *)
(* an exception that stops the run; the running quantity is not reduced.   *)
LedgerExhaustion ==
    [][Replayed("Sell") /\ DecLt(Held(row'.instrument), row'.quantity)
         => /\ phase' = "crashed"
            /\ exception' \in {"KeyError", "AttributeError"}
            /\ current_quantities' = current_quantities]_vars

(* A Sell ran off the end of the chain after closing a lot.                *)
LedgerExhaustionWitness ==
    /\ row.type = "Sell" /\ exception = "AttributeError"
    /\ \E n \in 1..Len(lots) : lots[n].sell_date = row.date /\ DecLt(lots[n].quantity, row.quantity)

-----------------------------------------------------------------------------
(* C5  Chronological chain order, as claimed: every lot is purchased       *)
(* strictly before its next lot.                                           *)
StrictChronology ==
    \A n \in 1..Len(lots) :
        lots[n].next_lot # None => lots[n].purchase_date < lots[lots[n].next_lot].purchase_date

(* C5, amended: every lot is purchased no later than its next lot.         *)
Chronology ==
    \A n \in 1..Len(lots) :
        lots[n].next_lot # None => lots[n].purchase_date <= lots[lots[n].next_lot].purchase_date

(* The two halves of a partly sold lot share a purchase date and a later   *)
(* purchase follows them.                                                  *)
ChronologyWitness ==
    \E i \in DOMAIN lot_roots :
        LET c == Chain(i)
        IN  /\ Len(c) >= 3
            /\ c[1] > c[2]
            /\ lots[c[1]].purchase_date = lots[c[2]].purchase_date
            /\ lots[c[2]].purchase_date < lots[c[3]].purchase_date

-----------------------------------------------------------------------------
(* C6  Split has no error outcome, as claimed: an SPL row for an           *)
(* instrument that has a running quantity, whatever it is, raises nothing. *)
SplitCompletes ==
    row.type = "SPL" /\ row.instrument \in DOMAIN current_quantities => exception = ""

-----------------------------------------------------------------------------
-----------------------------------------------------------------------------
(* C8  Split result without override: an SPL row of N new shares for an    *)
(* instrument whose running quantity is R # 0, with 10 (R+N)/R a whole     *)
(* number, multiplies the quantity of every open lot of the instrument by  *)
(* (R+N)/R, divides its price by it, and leaves R+N running.               *)
SplitResult ==
    [][LET i == row'.instrument
           R == current_quantities[i]
           N == row'.quantity
       IN  /\ Replayed("SPL")
           /\ i \in DOMAIN current_quantities
           /\ R # Zero
           /\ DecMul(Dec(10), DecDiv(DecAdd(R, N), R))[2] = 1
           => /\ phase' = "import"
              /\ current_quantities'[i] = DecAdd(R, N)
              /\ \A n \in LotsOf(i) :
                     Open(lots[n]) =>
                         /\ lots'[n].quantity = DecMul(lots[n].quantity, DecDiv(DecAdd(R, N), R))
                         /\ lots'[n].purchase_price =
                                DecDiv(lots[n].purchase_price, DecDiv(DecAdd(R, N), R))]_vars

(* Lots of 1 and 1 at 12 with 1 new share: 3/2 and 3/2 at 8, 3 running.    *)
SplitResultWitness ==
    /\ row.type = "SPL" /\ row.quantity = Dec(1) /\ phase = "import"
    /\ split_ratio = <<3, 2>>
    /\ Len(lots) = 2
    /\ current_quantities[row.instrument] = Dec(3)
    /\ \A n \in 1..2 : lots[n].quantity = <<3, 2>> /\ lots[n].purchase_price = Dec(8)

-----------------------------------------------------------------------------
(* C9  Split override: an SPL row whose computed ratio has more than one   *)
(* decimal digit (10 times the ratio is no whole number) leaves the ledger *)
(* as it is and waits for a ratio; the step that leaves the wait rescales  *)
(* every open lot of the instrument and its running quantity by the ratio  *)
(* supplied, and no other step leaves it.                                  *)
SplitOverride ==
    [][LET i == row'.instrument
           R == current_quantities[i]
           N == row'.quantity
       IN  /\ /\ Replayed("SPL")
              /\ i \in DOMAIN current_quantities
              /\ R # Zero
              /\ DecMul(Dec(10), DecDiv(DecAdd(R, N), R))[2] # 1
              => /\ phase' = "input"
                 /\ ledger' = ledger
           /\ phase = "input"
              => /\ phase' = "import"
                 /\ row' = row
                 /\ split_ratio' \in OverrideRatios
                 /\ current_quantities'[i] = DecMul(R, split_ratio')
                 /\ Len(lots') = Len(lots)
                 /\ \A n \in LotsOf(i) :
                        IF Open(lots[n])
                        THEN /\ lots'[n].quantity = DecMul(lots[n].quantity, split_ratio')
                             /\ lots'[n].purchase_price =
                                    DecDiv(lots[n].purchase_price, split_ratio')
                        ELSE lots'[n] = lots[n]]_vars

(* 3 running and 1 new share compute 4/3; 3/2 was supplied and a sold lot  *)
(* stands before the rescaled ones.                                        *)
SplitOverrideWitness ==
    /\ row.type = "SPL" /\ row.quantity = Dec(1) /\ phase = "import"
    /\ split_ratio = <<3, 2>>
    /\ current_quantities[row.instrument] = <<9, 2>>
    /\ \E n \in 1..Len(lots) : Closed(lots[n])

-----------------------------------------------------------------------------
(* C10  Gains report completeness: the long-term and short-term gains      *)
(* reported for an instrument are the sums of (sell price - purchase       *)
(* price) x quantity over all its sold lots with a sell date not before    *)
(* the start of the year, long-term being those held more than 365 days.   *)
(* Realized(n, i, long) is that sum over the first n lots of the heap.     *)
RECURSIVE Realized(_, _, _)
Realized(n, i, long) ==
    IF n = 0 THEN Zero
    ELSE LET l == lots[n]
             counts == /\ l.instrument = i
                       /\ Closed(l)
                       /\ l.sell_date >= start_of_year
                       /\ (l.sell_date - l.purchase_date > 365) = long
         IN  DecAdd(IF counts
                    THEN DecMul(DecSub(l.sell_price, l.purchase_price), l.quantity)
                    ELSE Zero,
                    Realized(n - 1, i, long))

(* C10  The gains reported equal the sums over all sold lots of the year.  *)
GainsComplete ==
    phase = "reported" =>
        /\ DOMAIN gains = DOMAIN lot_heads
        /\ \A i \in DOMAIN gains :
               /\ gains[i].long = Realized(Len(lots), i, TRUE)
               /\ gains[i].short = Realized(Len(lots), i, FALSE)

(* The report walked past an unsold head, counted a long-term sale of the  *)
(* year and stopped at a sale of the year before.                          *)
GainsCompleteWitness ==
    /\ phase = "reported"
    /\ \E i \in DOMAIN gains :
           /\ Open(lots[lot_heads[i]])
           /\ gains[i].long # Zero
           /\ \E n \in LotsOf(i) : Closed(lots[n]) /\ lots[n].sell_date < start_of_year

-----------------------------------------------------------------------------
(* C11  Sell-date monotonicity: along every chain, from the root to the    *)
(* head, the sell dates of the sold lots never decrease.                   *)
SellDatesAscend ==
    \A i \in DOMAIN lot_roots :
        LET c == Chain(i)
        IN  \A j, k \in 1..Len(c) :
                j < k /\ Closed(lots[c[j]]) /\ Closed(lots[c[k]])
                => lots[c[j]].sell_date <= lots[c[k]].sell_date

(* Two sales of different days have closed two lots of a chain.            *)
SellDatesAscendWitness ==
    \E i \in DOMAIN lot_roots :
        LET c == Chain(i)
        IN  /\ Len(c) >= 3
            /\ Closed(lots[c[1]]) /\ Closed(lots[c[2]]) /\ Closed(lots[c[3]])
            /\ lots[c[1]].sell_date < lots[c[3]].sell_date

-----------------------------------------------------------------------------
(* C12  Fatal errors stop the run: a row that does not parse and a Sell    *)
(* for more than is held leave the run crashed; a crashed run takes no     *)
(* further step, so no later row changes the ledger and no report is       *)
(* written.                                                                *)
FatalStops ==
    [][/\ exception = ""
       /\ exception' # "" => phase' = "crashed" /\ gains' = EmptyDict
       /\ Replayed("Sell") /\ DecLt(Held(row'.instrument), row'.quantity) => exception' # ""
       /\ nrows' = nrows + 1 /\ row' = NoRow => exception' = "SystemExit"]_vars

(* An unparseable row ended a run that had lots and rows left to replay.   *)
FatalStopsWitness ==
    /\ phase = "crashed" /\ exception = "SystemExit"
    /\ nrows < MaxRows
    /\ \E n \in 1..Len(lots) : Open(lots[n])
    /\ gains = EmptyDict

-----------------------------------------------------------------------------
(* C13  Lot well-formedness: every lot has a quantity above zero, and its  *)
(* sell date and sell price are both unset or both set.                    *)
LotsWellFormed ==
    \A n \in 1..Len(lots) :
        /\ DecLt(Zero, lots[n].quantity)
        /\ (lots[n].sell_date = NoDate) = (lots[n].sell_price = NoPrice)

(* A partial sale left a sold front lot and an open remainder, and a split *)
(* rescaled the remainder.                                                 *)
LotsWellFormedWitness ==
    /\ row.type = "SPL" /\ phase = "import"
    /\ \E a, b \in 1..Len(lots) :
           /\ a > b
           /\ lots[a].next_lot = b
           /\ Closed(lots[a]) /\ Open(lots[b])
           /\ lots[b].quantity # Dec(1)

-----------------------------------------------------------------------------
(* C14  Instrument independence: a step on the instrument of the row being *)
(* replayed leaves the root, the head, the running quantity and every lot  *)
(* of every other instrument as they were, and gives it no new lot.        *)
Independence ==
    [][\A b \in Portfolio :
           b # row'.instrument =>
               /\ (b \in DOMAIN lot_roots') = (b \in DOMAIN lot_roots)
               /\ Get(lot_roots', b) = Get(lot_roots, b)
               /\ Get(lot_heads', b) = Get(lot_heads, b)
               /\ (b \in DOMAIN current_quantities') = (b \in DOMAIN current_quantities)
               /\ b \in DOMAIN current_quantities => current_quantities'[b] = current_quantities[b]
               /\ \A n \in 1..Len(lots') :
                      lots'[n].instrument = b => n <= Len(lots) /\ lots'[n] = lots[n]
               /\ \A n \in 1..Len(lots) :
                      lots[n].instrument = b => lots'[n] = lots[n]]_vars

(* A split of one instrument went by while the other held an open lot and  *)
(* a sold one.                                                             *)
IndependenceWitness ==
    /\ row.type = "SPL" /\ phase = "import" /\ split_ratio # Zero
    /\ \E a, b \in 1..Len(lots) :
           /\ lots[a].instrument # row.instrument /\ Open(lots[a])
           /\ lots[b].instrument # row.instrument /\ Closed(lots[b])

-----------------------------------------------------------------------------
(* The sum of the quantities of the lots of a chain, open and sold.        *)
RECURSIVE SumAll(_, _)
SumAll(ls, chain) ==
    IF chain = <<>> THEN Zero
    ELSE DecAdd(ls[Head(chain)].quantity, SumAll(ls, Tail(chain)))

(* The chain of instrument i after the step.                               *)
ChainAfter(i) == Forward(lots', lot_roots'[i], Len(lots') + 1)

(* The lots of the chain that are sold after the step and were not before. *)
NewlyClosed(i) ==
    SelectSeq(ChainAfter(i),
              LAMBDA n : Closed(lots'[n]) /\ (n > Len(lots) \/ Open(lots[n])))

(* C15  Disposal result: a Sell of Q with 0 < Q <= holdings succeeds; the  *)
(* lots it closes carry its date and price and sum to Q; a partly consumed *)
(* lot is split into a sold front lot and an open remainder that keep the  *)
(* purchase date and price and add up to the original quantity; the sum of *)
(* the quantities over the whole chain is unchanged.                       *)
DisposalResult ==
    [][/\ Replayed("Sell")
       /\ DecLt(Zero, row'.quantity)
       /\ DecLe(row'.quantity, Held(row'.instrument))
       => LET i == row'.instrument
              closed == NewlyClosed(i)
              front == Len(lots')
              rest == lots'[front].next_lot
          IN  /\ exception' = "" /\ phase' = "import"
              /\ \A k \in 1..Len(closed) :
                     /\ lots'[closed[k]].sell_date = row'.date
                     /\ lots'[closed[k]].sell_price = row'.price
              /\ SumAll(lots', closed) = row'.quantity
              /\ Len(lots') <= Len(lots) + 1
              /\ \A n \in 1..Len(lots) :
                     lots'[n].quantity # lots[n].quantity => Len(lots') = Len(lots) + 1 /\ n = rest
              /\ Len(lots') = Len(lots) + 1 =>
                     /\ Closed(lots'[front]) /\ closed[Len(closed)] = front
                     /\ rest \in 1..Len(lots)
                     /\ Open(lots[rest]) /\ Open(lots'[rest])
                     /\ lots'[rest].prev_lot = front
                     /\ lots'[front].purchase_date = lots[rest].purchase_date
                     /\ lots'[front].purchase_price = lots[rest].purchase_price
                     /\ lots'[rest].purchase_date = lots[rest].purchase_date
                     /\ lots'[rest].purchase_price = lots[rest].purchase_price
                     /\ DecAdd(lots'[front].quantity, lots'[rest].quantity) = lots[rest].quantity
              /\ SumAll(lots', ChainAfter(i)) = SumAll(lots, Chain(i))]_vars

(* A Sell of 2 has closed a lot of 1 whole and split 1 off a lot of 2.     *)
DisposalResultWitness ==
    /\ row.type = "Sell" /\ row.quantity = Dec(2) /\ exception = ""
    /\ Len(lots) = 3
    /\ Chain(row.instrument) = <<1, 3, 2>>
    /\ Closed(lots[1]) /\ lots[1].sell_date = row.date /\ lots[1].quantity = Dec(1)
    /\ Closed(lots[3]) /\ lots[3].sell_date = row.date /\ lots[3].quantity = Dec(1)
    /\ Open(lots[2]) /\ lots[2].quantity = Dec(1)
    /\ lots[3].purchase_date = lots[2].purchase_date

-----------------------------------------------------------------------------
(* The step that rescales the lots of a split: the SPL row itself, or the  *)
(* entry of the ratio when the computed one was refused.                   *)
Rescaled ==
    \/ Replayed("SPL") /\ phase' = "import"
    \/ phase = "input" /\ phase' = "import"

(* No open lot of the chain of i stands before a sold one.                 *)
ClosedPrefix(i) ==
    \A a, b \in 1..Len(Chain(i)) :
        a < b /\ Open(lots[Chain(i)[a]]) => Open(lots[Chain(i)[b]])

(* C16  Split reaches every open lot: sold lots always form a prefix of    *)
(* the chain, so the walk from the head back to the first sold lot         *)
(* rescales every open lot of the instrument.                              *)
SplitReachesAll ==
    [][/\ \A i \in DOMAIN lot_roots : ClosedPrefix(i)
       /\ Rescaled =>
              \A n \in LotsOf(row'.instrument) :
                  Open(lots[n]) =>
                      /\ lots'[n].quantity = DecMul(lots[n].quantity, split_ratio')
                      /\ lots'[n].purchase_price = DecDiv(lots[n].purchase_price, split_ratio')]_vars

(* A split by 3/2 went over a chain of a sold lot and two open lots of 1.  *)
SplitReachesAllWitness ==
    /\ row.type = "SPL" /\ phase = "import" /\ split_ratio = <<3, 2>>
    /\ Len(Chain(row.instrument)) = 3
    /\ Closed(lots[Chain(row.instrument)[1]])
    /\ Open(lots[Chain(row.instrument)[2]]) /\ lots[Chain(row.instrument)[2]].quantity = <<3, 2>>
    /\ Open(lots[Chain(row.instrument)[3]]) /\ lots[Chain(row.instrument)[3]].quantity = <<3, 2>>

-----------------------------------------------------------------------------
(* C17  Closed lots are final: no step changes the quantity, the purchase  *)
(* date, the purchase price, the sell date or the sell price of a lot that *)
(* is sold, and no step removes it.                                        *)
ClosedFinal ==
    [][\A n \in 1..Len(lots) :
           Closed(lots[n]) =>
               /\ n <= Len(lots')
               /\ lots'[n].quantity = lots[n].quantity
               /\ lots'[n].purchase_date = lots[n].purchase_date
               /\ lots'[n].purchase_price = lots[n].purchase_price
               /\ lots'[n].sell_date = lots[n].sell_date
               /\ lots'[n].sell_price = lots[n].sell_price]_vars

(* A split by 3/2 on a later day has gone by a lot sold earlier: the sold  *)
(* lot still has its quantity, basis and sale, the open lots are rescaled. *)
ClosedFinalWitness ==
    /\ row.type = "SPL" /\ phase = "import" /\ split_ratio = <<3, 2>>
    /\ \E a, c \in 1..Len(lots) :
           /\ Closed(lots[a]) /\ Open(lots[c])
           /\ lots[a].sell_date < row.date /\ lots[a].sell_price = Dec(9)
           /\ lots[a].quantity = Dec(1) /\ lots[a].purchase_price = Dec(12)
           /\ lots[c].quantity = <<3, 2>> /\ lots[c].purchase_price = Dec(8)

-----------------------------------------------------------------------------
(* The lots of a chain as a set.                                           *)
Range(s) == {s[k] : k \in 1..Len(s)}

(* The Trans Codes that acquire a lot.                                     *)
AcquireCodes == {"Buy"} \cup ZeroBasisCodes

(* C18  Lot history only grows: no step takes a lot out of the heap or out *)
(* of its chain; an acquisition adds exactly one lot, as the new head, and *)
(* changes no attribute of an existing lot; a Sell that succeeds adds at   *)
(* most one lot; a split adds none.                                        *)
HistoryGrows ==
    [][/\ Len(lots') >= Len(lots)
       /\ \A n \in 1..Len(lots) : lots'[n].instrument = lots[n].instrument
       /\ \A i \in DOMAIN lot_roots :
              /\ i \in DOMAIN lot_roots'
              /\ Range(Chain(i)) \subseteq Range(ChainAfter(i))
       /\ nrows' = nrows + 1 /\ row'.type \in AcquireCodes =>
              LET i == row'.instrument
                  before == IF i \in DOMAIN lot_roots THEN Chain(i) ELSE <<>>
              IN  /\ Len(lots') = Len(lots) + 1
                  /\ lot_heads'[i] = Len(lots')
                  /\ ChainAfter(i) = Append(before, Len(lots'))
                  /\ \A n \in 1..Len(lots) : [lots'[n] EXCEPT !.next_lot = None] =
                                             [lots[n] EXCEPT !.next_lot = None]
       /\ Replayed("Sell") /\ exception' = "" =>
              /\ Len(lots') <= Len(lots) + 1
              /\ Cardinality(Range(ChainAfter(row'.instrument)))
                     <= Cardinality(Range(Chain(row'.instrument))) + 1
       /\ Replayed("SPL") \/ Rescaled =>
              /\ Len(lots') = Len(lots)
              /\ \A i \in DOMAIN lot_roots : ChainAfter(i) = Chain(i)]_vars

(* A Buy has put a fourth lot at the head of a chain whose root a partial  *)
(* Sell had split off.                                                     *)
HistoryGrowsWitness ==
    /\ row.type = "Buy" /\ phase = "import"
    /\ Len(lots) = 4
    /\ Chain(row.instrument) = <<3, 1, 2, 4>>
    /\ lot_heads[row.instrument] = 4
    /\ Closed(lots[3]) /\ Open(lots[1])

-----------------------------------------------------------------------------
(* The three chain walks, iteration by iteration.  Each takes the lots it  *)
(* may still visit as fuel and returns the lots it visited, in order, and  *)
(* how it ended; "running" is a walk that has used its fuel up and is      *)
(* still in its loop.                                                      *)

(* The while loop of a Sell with `continue` before line 104: a sold lot is *)
(* looked at again and again.                                              *)
RECURSIVE SellWalkStuck(_, _, _, _)
SellWalkStuck(ls, current_lot, quantity_to_distribute, fuel) ==
    IF ~DecLt(Zero, quantity_to_distribute) THEN [visited |-> <<>>, end |-> "distributed"]
    ELSE IF current_lot = None THEN [visited |-> <<>>, end |-> "exhausted"]
    ELSE IF fuel = 0 THEN [visited |-> <<>>, end |-> "running"]
    ELSE LET rest == IF ls[current_lot].sell_date # NoDate
                     THEN SellWalkStuck(ls, current_lot, quantity_to_distribute, fuel - 1)
                     ELSE IF DecLe(ls[current_lot].quantity, quantity_to_distribute)
                     THEN SellWalkStuck([ls EXCEPT ![current_lot].sell_date = 0],
                                        ls[current_lot].next_lot,
                                        DecSub(quantity_to_distribute, ls[current_lot].quantity),
                                        fuel - 1)
                     ELSE [visited |-> <<>>, end |-> "distributed"]
         IN  [visited |-> <<current_lot>> \o rest.visited, end |-> rest.end]

(* Lines 102-120: one iteration per lot looked at.  The walk reads only    *)
(* whether a lot is sold, so the lots it consumes are marked sold on day 0 *)
(* and the split of line 114, which ends the loop, is not carried out.     *)
RECURSIVE SellWalk(_, _, _, _)
SellWalk(ls, current_lot, quantity_to_distribute, fuel) ==
    IF ~DecLt(Zero, quantity_to_distribute) THEN [visited |-> <<>>, end |-> "distributed"]
    ELSE IF current_lot = None THEN [visited |-> <<>>, end |-> "exhausted"]
    ELSE IF fuel = 0 THEN [visited |-> <<>>, end |-> "running"]
    ELSE LET rest == IF ls[current_lot].sell_date # NoDate
                     THEN SellWalk(ls, ls[current_lot].next_lot, quantity_to_distribute, fuel - 1)
                     ELSE IF DecLe(ls[current_lot].quantity, quantity_to_distribute)
                     THEN SellWalk([ls EXCEPT ![current_lot].sell_date = 0],
                                   ls[current_lot].next_lot,
                                   DecSub(quantity_to_distribute, ls[current_lot].quantity),
                                   fuel - 1)
                     ELSE [visited |-> <<>>, end |-> "distributed"]
         IN  [visited |-> <<current_lot>> \o rest.visited, end |-> rest.end]

(* Lines 133-142: one iteration per lot looked at.                         *)
RECURSIVE SplitWalk(_, _, _)
SplitWalk(ls, current_lot, fuel) ==
    IF fuel = 0 THEN [visited |-> <<>>, end |-> "running"]
    ELSE IF ls[current_lot].sell_date # NoDate \/ ls[current_lot].prev_lot = None
    THEN [visited |-> <<current_lot>>, end |-> "done"]
    ELSE LET rest == SplitWalk(ls, ls[current_lot].prev_lot, fuel - 1)
         IN  [visited |-> <<current_lot>> \o rest.visited, end |-> rest.end]

(* Lines 200-213: one iteration per lot looked at.                         *)
RECURSIVE GainsWalk(_, _, _, _)
GainsWalk(ls, current_lot, year_start, fuel) ==
    IF fuel = 0 THEN [visited |-> <<>>, end |-> "running"]
    ELSE IF \/ ls[current_lot].sell_date # NoDate /\ ls[current_lot].sell_date < year_start
            \/ ls[current_lot].prev_lot = None
    THEN [visited |-> <<current_lot>>, end |-> "done"]
    ELSE LET rest == GainsWalk(ls, ls[current_lot].prev_lot, year_start, fuel - 1)
         IN  [visited |-> <<current_lot>> \o rest.visited, end |-> rest.end]

NoRepeat(s) == \A a, b \in 1..Len(s) : a # b => s[a] # s[b]

(* C19  Termination of the chain walks: on every reachable chain the walk  *)
(* of a Sell ends within one iteration per lot, with the quantity          *)
(* distributed or with the chain exhausted (the case in which the Sell     *)
(* raises), and the walks of a split and of the gains report end after     *)
(* looking at each lot at most once.                                       *)
WalksTerminate ==
    \A i \in DOMAIN lot_roots :
        /\ \A q \in SellQuantities :
               LET walk == SellWalk(lots, lot_roots[i], Dec(q), Len(lots))
               IN  /\ walk.end \in {"distributed", "exhausted"}
                   /\ NoRepeat(walk.visited)
                   /\ (walk.end = "exhausted") =
                          SellLoop(lots, lot_roots, lot_roots[i], Dec(q), 0, Dec(1)).raised
        /\ LET walk == SplitWalk(lots, lot_heads[i], Len(lots))
           IN  /\ walk.end = "done"
               /\ NoRepeat(walk.visited)
        /\ \A year_start \in Dates :
               LET walk == GainsWalk(lots, lot_heads[i], year_start, Len(lots))
               IN  /\ walk.end = "done"
                   /\ NoRepeat(walk.visited)

(* A chain of two sold lots and an open lot of 1: a Sell of 1 ends with    *)
(* the quantity distributed and a Sell of 2 with the chain exhausted, both *)
(* after three iterations; the split walk ends at the first sold lot and   *)
(* the gains walk at the root.                                             *)
WalksTerminateWitness ==
    \E i \in DOMAIN lot_roots :
        /\ Chain(i) = <<1, 3, 2>>
        /\ SellWalk(lots, lot_roots[i], Dec(1), Len(lots)) =
               [visited |-> <<1, 3, 2>>, end |-> "distributed"]
        /\ SellWalk(lots, lot_roots[i], Dec(2), Len(lots)) =
               [visited |-> <<1, 3, 2>>, end |-> "exhausted"]
        /\ SplitWalk(lots, lot_heads[i], Len(lots)) = [visited |-> <<2, 3>>, end |-> "done"]
        /\ GainsWalk(lots, lot_heads[i], 0, Len(lots)) = [visited |-> <<2, 3, 1>>, end |-> "done"]

====
